---- MODULE Spec2Model ----
(***************************************************************************)
(* Model of src/server/index.js: the express handlers of the prediction    *)
(* market server, the process-wide currentNonce they share, and the three  *)
(* external services they await (retrieval, completion, chain RPC).        *)
(*                                                                         *)
(* The runtime is single-threaded: a handler runs from one await to the    *)
(* next without interruption, so every action below is one such run.  A    *)
(* network call is two steps: the service produces its reply (an           *)
(* environment action) and the awaiting handler resumes with it.           *)
(***************************************************************************)
EXTENDS Integers, Sequences, FiniteSets, TLC

\* ------------------------------------------------------------------ bounds
NumReqs == 2
MaxPreds == 2
InitCount == 3
MaxLen == 3

\* currentNonce's uninitialized value (null)
Null == -1

Reqs == 1..NumReqs

\* ---------------------------------------------------- JavaScript helpers

\* !x for the request body's topic / description: undefined and "" are falsy
Undefined == "<undefined>"
FalsyUndefinedOnly(x) == x = Undefined
Falsy(x) == x = Undefined \/ x = ""

BodyFields == {Undefined, "", "btc"}

\* currentNonce++ : ToNumber(null) is 0, so null++ leaves 1
IncrSkip(n) == IF n = Null THEN 2 ELSE n + 2
Increment(n) == IF n = Null THEN 1 ELSE n + 1

\* error.message.includes("nonce too low")
IsNonceTooLow(msg) == msg = "nonce too low"

\* ------------------------------------------------ parseInt, trim, split
WhiteSpace == {" ", "\n"}
DecDigits == <<"0", "1", "2", "3", "4", "5", "6", "7", "8", "9">>
HexDigits == DecDigits \o <<"a", "b", "c", "d", "e", "f">>

IndexOf(c, digits) == IF \E i \in 1..Len(digits) : digits[i] = c
                      THEN (CHOOSE i \in 1..Len(digits) : digits[i] = c) - 1
                      ELSE -1

RECURSIVE TrimStart(_)
TrimStart(s) == IF s # <<>> /\ Head(s) \in WhiteSpace THEN TrimStart(Tail(s)) ELSE s

RECURSIVE TrimEnd(_)
TrimEnd(s) == IF s # <<>> /\ s[Len(s)] \in WhiteSpace
              THEN TrimEnd(SubSeq(s, 1, Len(s) - 1)) ELSE s

Trim(s) == TrimEnd(TrimStart(s))

\* lines[lines.length - 1] of s.split('\n'): the text after the last newline
RECURSIVE LastLine(_)
LastLine(s) == IF \E i \in 1..Len(s) : s[i] = "\n"
               THEN LastLine(Tail(s))
               ELSE s

\* value of the longest prefix of s made of digits of the radix; n digits read
RECURSIVE Digits(_, _, _, _)
Digits(s, digits, acc, n) ==
    IF s # <<>> /\ IndexOf(Head(s), digits) >= 0
    THEN Digits(Tail(s), digits, acc * Len(digits) + IndexOf(Head(s), digits), n + 1)
    ELSE [val |-> acc, n |-> n]

\* parseInt(s) with no radix: leading white space, a sign, a 0x prefix
ParseInt(s) ==
    LET t == TrimStart(s)
        neg == t # <<>> /\ Head(t) = "-"
        u == IF t # <<>> /\ Head(t) \in {"-", "+"} THEN Tail(t) ELSE t
        hex == Len(u) >= 2 /\ u[1] = "0" /\ u[2] \in {"x", "X"}
        d == IF hex THEN Digits(Tail(Tail(u)), HexDigits, 0, 0)
                    ELSE Digits(u, DecDigits, 0, 0)
    IN IF d.n = 0 THEN [nan |-> TRUE, val |-> 0]
       ELSE [nan |-> FALSE, val |-> IF neg THEN 0 - d.val ELSE d.val]

\* determineOutcome's parsing of the completion text (lines 251-259)
DetermineOutcomeNoRange(text) ==
    LET p == ParseInt(LastLine(Trim(text)))
    IN IF p.nan THEN [ok |-> FALSE, val |-> 0] ELSE [ok |-> TRUE, val |-> p.val]

DetermineOutcome(text) ==
    LET p == ParseInt(LastLine(Trim(text)))
    IN IF p.nan \/ (p.val # 0 /\ p.val # 1)
       THEN [ok |-> FALSE, val |-> 0]
       ELSE [ok |-> TRUE, val |-> p.val]

\* completion texts the adjudication flow is run with
JudgeTexts == { <<"R", "\n", "1">>, <<"R", "\n", "0">>, <<"R", "\n", "1", ".">>,
                <<"R", "\n", "2">>, <<"R">> }

\* ------------------------------------------------- generatePredictions
\* the fields attached to every parsed object (lines 105-111)
Policy == [minVotes |-> 1, maxVotes |-> 1000, predictionType |-> 0, optionsCount |-> 2]

\* {...prediction, minVotes: 1, ...}: the later keys win
NormalizeModelWins(p) == p @@ Policy
Normalize(p) == Policy @@ p

\* the i-th object of the model's JSON array; every second one also carries
\* policy field names of its own
Candidate(i) ==
    IF i % 2 = 1
    THEN [description |-> i, duration |-> 86400, tags |-> <<"t">>]
    ELSE [description |-> i, duration |-> 86400, tags |-> <<"t">>,
          minVotes |-> 5, optionsCount |-> 9]

\* what the completion returns: text that is not JSON, JSON that is no array,
\* or a JSON array of n objects
ModelOutputs == {[shape |-> "notjson", n |-> 0], [shape |-> "notarray", n |-> 0]}
                \cup {[shape |-> "array", n |-> k] : k \in 0..MaxPreds}

\* JSON.parse(content) then predictions.map(...) (lines 104-111)
GeneratePredictionsLenient(out) ==
    IF out.shape \in {"array", "notarray"}
    THEN [ok |-> TRUE, preds |-> [i \in 1..out.n |-> Normalize(Candidate(i))]]
    ELSE [ok |-> FALSE, preds |-> <<>>]

GeneratePredictions(out) ==
    IF out.shape = "array"
    THEN [ok |-> TRUE, preds |-> [i \in 1..out.n |-> Normalize(Candidate(i))]]
    ELSE [ok |-> FALSE, preds |-> <<>>]

\* ------------------------------------------------------------------ state
VARIABLES
    currentNonce,  \* let currentNonce = null (line 30)
    req,           \* per request: the handler's position and local variables
    chainCount,    \* chain: the signer's next nonce counting pending transactions
    mined,         \* chain: the signer's transaction count at the latest block
    queued,        \* chain: nonces above chainCount held in the pool behind a gap
    log,           \* history: the contract.createPrediction calls since the last reset
    base,          \* history: the value the last getTransactionCount assigned
    needFetch,     \* history: a "nonce too low" reset happened and no submission started since
    accepted,      \* history: the broadcasts accepted since the last getTransactionCount assigned
    response,      \* the answer just sent: the answered handler's locals, for one step
    text,          \* a completion text handed to determineOutcome on its own
    judged         \* determineOutcome's result for text, once applied

vars == <<currentNonce, req, response, chainCount, mined, queued, log, base, needFetch,
          accepted, text, judged>>

NoCalls == [gen |-> 0, retr |-> 0, llm |-> 0, chain |-> 0, bcast |-> 0, nonceW |-> 0]
NoReply == [ok |-> FALSE, val |-> 0, msg |-> ""]

Idle == [pc |-> "idle", kind |-> "none", field |-> Undefined, stages |-> <<>>, shape |-> "",
         preds |-> <<>>, idx |-> 0, results |-> <<>>, txn |-> Null, reply |-> NoReply, outcome |-> Null, verdictArg |-> Null,
         err |-> "", resp |-> 0, calls |-> NoCalls]

\* an answered handler keeps nothing; no answer was sent in the step just taken
Done == [Idle EXCEPT !.pc = "done"]
NoResponse == Idle

NotJudged == [applied |-> FALSE, ok |-> FALSE, val |-> 0]

Init ==
    /\ currentNonce = Null
    /\ req = [r \in Reqs |-> Idle]
    /\ response = NoResponse
    /\ chainCount = InitCount
    /\ mined = InitCount
    /\ queued = {}
    /\ log = <<>>
    /\ base = Null
    /\ needFetch = FALSE
    /\ accepted = 0
    /\ text = <<>>
    /\ judged = NotJudged

Chain == <<chainCount, mined, queued>>
Silent == response' = NoResponse
Pure == <<text, judged>>
NonceState == <<currentNonce, log, base, needFetch, accepted>>

\* requests are numbered in their order of arrival
CanArrive(r) == req[r].pc = "idle" /\ \A q \in Reqs : q < r => req[q].pc # "idle"

InFlight(r) == req[r].pc \notin {"idle", "done"}

\* what an awaited service delivered: stages lists the read, retrieval and
\* completion calls of the request, each with how it ended
Stage(q, name, ok) == [q EXCEPT !.stages = Append(@, <<name, ok>>)]

\* res.status(code).json({error}) / res.json(...)
RespondHangs(q, code, msg) == [q EXCEPT !.pc = "hung", !.resp = code, !.err = msg]
Respond(q, code, msg) == [q EXCEPT !.pc = "done", !.resp = code, !.err = msg]

\* request r goes on as q1; when q1 has answered, the answer is sent and r is done
Continue(r, q1) ==
    /\ req' = [req EXCEPT ![r] = IF q1.pc = "done" THEN Done ELSE q1]
    /\ response' = IF q1.pc = "done" THEN q1 ELSE NoResponse

\* ------------------------------------------- createPredictionOnContract
\* lines 124-139 run without a suspension: with a nonce at hand the broadcast
\* is made with it, without one the transaction count is requested first
CreateEntry(q, nonce) ==
    IF nonce = Null
    THEN [q EXCEPT !.pc = "fetch", !.calls.chain = @ + 1]
    ELSE [q EXCEPT !.pc = "send", !.txn = nonce,
                   !.calls.chain = @ + 1, !.calls.bcast = @ + 1]

\* the call of line 130 enters the history with the nonce it was given
LogCall(lg, r, q1) ==
    IF q1.pc = "send" THEN Append(lg, [n |-> q1.txn, r |-> r, st |-> "flight"]) ELSE lg

\* a submission that starts is the next submission after any earlier reset
NeedAfter(nf, q1) == IF q1.pc \in {"fetch", "send"} THEN FALSE ELSE nf

LogMark(lg, r, st) ==
    [i \in 1..Len(lg) |-> IF lg[i].r = r /\ lg[i].st = "flight"
                          THEN [lg[i] EXCEPT !.st = st] ELSE lg[i]]

\* the for loop of POST /generate-predictions (lines 172-184): push the item's
\* result, then call createPredictionOnContract for the next prediction or answer
NextItemAbortOnError(q, item, nonce) ==
    LET q1 == [q EXCEPT !.results = Append(@, item), !.idx = @ + 1]
    IN IF q1.idx > Len(q1.preds) \/ "error" \in DOMAIN item
       THEN [q1 EXCEPT !.pc = "done", !.resp = 200]
       ELSE CreateEntry(q1, nonce)

NextItemRetryOnError(q, item, nonce) ==
    LET q1 == [q EXCEPT !.results = Append(@, item), !.idx = @ + 1]
    IN IF "error" \in DOMAIN item /\ nonce = Null /\ q.pc = "sent"
       THEN CreateEntry(q, nonce)
       ELSE IF q1.idx > Len(q1.preds)
            THEN [q1 EXCEPT !.pc = "done", !.resp = 200]
            ELSE CreateEntry(q1, nonce)

NextItem(q, item, nonce) ==
    LET q1 == [q EXCEPT !.results = Append(@, item), !.idx = @ + 1]
    IN IF q1.idx > Len(q1.preds)
       THEN [q1 EXCEPT !.pc = "done", !.resp = 200]
       ELSE CreateEntry(q1, nonce)

\* createdPredictions.push({...prediction, transactionHash}) / ({...prediction, error});
\* the error is line 155's message, kept here without the cause it appends
Created(q, hash) == [transactionHash |-> hash] @@ q.preds[q.idx]
Failed(q, msg) == [error |-> "Failed to create prediction on contract"] @@ q.preds[q.idx]

\* ------------------------------------------------ POST /generate-predictions
\* lines 159-168 (and 277-286 of the dry run): the topic check, then
\* generatePredictions starts and awaits the retrieval call
GenerateArrives(r, kind, topic) ==
    /\ CanArrive(r)
    /\ Continue(r,
                 IF Falsy(topic)
                 THEN Respond([req[r] EXCEPT !.kind = kind, !.field = topic], 400, "Topic is required")
                 ELSE [req[r] EXCEPT !.kind = kind, !.field = topic, !.pc = "retrieve",
                                !.calls.gen = @ + 1, !.calls.retr = @ + 1])
    /\ UNCHANGED <<NonceState, Chain, Pure>>

\* getPerplexityData returns inside generatePredictions (lines 70, 92, 112-115)
GenerateRetrieved(r, ok) ==
    /\ req[r].pc = "retrieve"
    /\ Continue(r,
                 IF ok THEN [Stage(req[r], "retrieval", ok) EXCEPT !.pc = "complete", !.calls.llm = @ + 1]
                 ELSE Respond(Stage(req[r], "retrieval", ok), 500, "Failed to generate predictions"))
    /\ UNCHANGED <<NonceState, Chain, Pure>>

\* the completion fails: generatePredictions throws, the handler answers 500
CompletionFails(r) ==
    /\ req[r].pc = "complete"
    /\ Continue(r,
                 Respond(Stage(req[r], "completion", FALSE), 500, "Failed to generate predictions"))
    /\ UNCHANGED <<NonceState, Chain, Pure>>

\* the completion returns: parse and normalize (104-111); the dry run answers
\* with the predictions (289), the creation flow enters its loop (171-175)
CompletionReturnsDryRunSubmits(r, out) ==
    /\ req[r].pc = "complete"
    /\ LET g == GeneratePredictions(out)
           qs == [Stage(req[r], "completion", TRUE) EXCEPT !.shape = out.shape]
           q0 == [qs EXCEPT !.preds = g.preds, !.idx = 1]
           q1 == IF ~g.ok THEN Respond(qs, 500, "Failed to generate predictions")
                 ELSE IF g.preds = <<>>
                      THEN [q0 EXCEPT !.pc = "done", !.resp = 200]
                      ELSE CreateEntry(q0, currentNonce)
       IN /\ Continue(r, q1)
          /\ log' = LogCall(log, r, q1)
          /\ needFetch' = NeedAfter(needFetch, q1)
    /\ UNCHANGED <<currentNonce, base, accepted, Chain, Pure>>

CompletionReturns(r, out) ==
    /\ req[r].pc = "complete"
    /\ LET g == GeneratePredictions(out)
           qs == [Stage(req[r], "completion", TRUE) EXCEPT !.shape = out.shape]
           q0 == [qs EXCEPT !.preds = g.preds, !.idx = 1]
           q1 == IF ~g.ok THEN Respond(qs, 500, "Failed to generate predictions")
                 ELSE IF req[r].kind = "testgen" \/ g.preds = <<>>
                      THEN [q0 EXCEPT !.pc = "done", !.resp = 200]
                      ELSE CreateEntry(q0, currentNonce)
       IN /\ Continue(r, q1)
          /\ log' = LogCall(log, r, q1)
          /\ needFetch' = NeedAfter(needFetch, q1)
    /\ UNCHANGED <<currentNonce, base, accepted, Chain, Pure>>

\* ------------------------------------------------------------- the chain
\* eth_getTransactionCount at the latest block, for the call of line 125
ChainServesCount(r, ok) ==
    /\ req[r].pc = "fetch"
    /\ req' = [req EXCEPT ![r].pc = "fetched",
                          ![r].reply = IF ok THEN [ok |-> TRUE, val |-> mined, msg |-> ""]
                                       ELSE [ok |-> FALSE, val |-> 0, msg |-> "network error"]]
    /\ Silent
    /\ UNCHANGED <<NonceState, Chain, Pure>>

RECURSIVE Promote(_, _)
Promote(n, q) == IF n \in q THEN Promote(n + 1, q) ELSE n

\* the node receives a signed transaction with nonce txn: below the latest
\* count it is "nonce too low", at a pending nonce it cannot replace, at the next
\* nonce it is taken, above it is held back until the gap closes
ChainReceives(r) ==
    /\ req[r].pc \in {"send", "fsend"}
    /\ LET n == req[r].txn
           after == IF req[r].pc = "send" THEN "sent" ELSE "fsent"
       IN \/ /\ n < mined
             /\ req' = [req EXCEPT ![r].pc = after,
                          ![r].reply = [ok |-> FALSE, val |-> 0, msg |-> "nonce too low"]]
             /\ Silent
             /\ UNCHANGED Chain
          \/ /\ n >= mined /\ (n < chainCount \/ n \in queued)
             /\ req' = [req EXCEPT ![r].pc = after,
                          ![r].reply = [ok |-> FALSE, val |-> 0, msg |-> "replacement underpriced"]]
             /\ Silent
             /\ UNCHANGED Chain
          \/ /\ n = chainCount
             /\ chainCount' = Promote(n + 1, queued)
             /\ queued' = {m \in queued : m >= chainCount'}
             /\ req' = [req EXCEPT ![r].pc = after,
                          ![r].reply = [ok |-> TRUE, val |-> n, msg |-> ""]]
             /\ Silent
             /\ UNCHANGED mined
          \/ /\ n > chainCount /\ n \notin queued
             /\ queued' = queued \cup {n}
             /\ req' = [req EXCEPT ![r].pc = after,
                          ![r].reply = [ok |-> TRUE, val |-> n, msg |-> ""]]
             /\ Silent
             /\ UNCHANGED <<chainCount, mined>>
    /\ UNCHANGED <<NonceState, Pure>>

\* the call fails before anything is broadcast (gas estimation reverts, the
\* RPC endpoint is unreachable)
ChainRefuses(r) ==
    /\ req[r].pc \in {"send", "fsend"}
    /\ req' = [req EXCEPT ![r].pc = IF req[r].pc = "send" THEN "sent" ELSE "fsent",
                          ![r].reply = [ok |-> FALSE, val |-> 0, msg |-> "execution reverted"]]
    /\ Silent
    /\ UNCHANGED <<NonceState, Chain, Pure>>

\* a block includes the signer's next pending transaction
Mine ==
    /\ mined < chainCount
    /\ mined' = mined + 1
    /\ Silent
    /\ UNCHANGED <<currentNonce, req, chainCount, queued, log, base, needFetch, accepted, Pure>>

\* ------------------------------- createPredictionOnContract, resumed
\* the catch block of lines 147-156: only "nonce too low" resets the nonce
NonceAfterErrorAlways(nonce, msg) == Null
NonceAfterError(nonce, msg) == IF IsNonceTooLow(msg) THEN Null ELSE nonce

\* line 125 resumes: the count is assigned and the broadcast of line 130 is
\* made with it; a failed fetch is the item's error
FetchReturns(r) ==
    /\ req[r].pc = "fetched"
    /\ LET rep == req[r].reply
           q0 == [req[r] EXCEPT !.reply = NoReply]
           nonce1 == IF rep.ok THEN rep.val ELSE NonceAfterError(currentNonce, rep.msg)
           q1 == IF rep.ok
                 THEN [q0 EXCEPT !.pc = "send", !.txn = rep.val, !.calls.nonceW = @ + 1,
                                 !.calls.chain = @ + 1, !.calls.bcast = @ + 1]
                 ELSE NextItem(q0, Failed(q0, rep.msg), nonce1)
       IN /\ currentNonce' = nonce1
          /\ base' = IF rep.ok THEN rep.val ELSE base
          /\ Continue(r, q1)
          /\ log' = LogCall(log, r, q1)
          /\ needFetch' = IF rep.ok THEN FALSE ELSE NeedAfter(needFetch, q1)
          /\ accepted' = IF rep.ok THEN 0 ELSE accepted
    /\ UNCHANGED <<Chain, Pure>>

\* line 130 resumes with the transaction: currentNonce++ (142), then tx.wait()
SendAcceptedNoIncrement(r) ==
    /\ req[r].pc = "sent"
    /\ req[r].reply.ok
    /\ req' = [req EXCEPT ![r].pc = "wait", ![r].reply = NoReply,
                          ![r].calls.nonceW = @ + 1, ![r].calls.chain = @ + 1]
    /\ Silent
    /\ log' = LogMark(log, r, "ok")
    /\ accepted' = accepted + 1
    /\ UNCHANGED <<currentNonce, base, needFetch, Chain, Pure>>

SendAccepted(r) ==
    /\ req[r].pc = "sent"
    /\ req[r].reply.ok
    /\ currentNonce' = Increment(currentNonce)
    /\ req' = [req EXCEPT ![r].pc = "wait", ![r].reply = NoReply,
                          ![r].calls.nonceW = @ + 1, ![r].calls.chain = @ + 1]
    /\ Silent
    /\ log' = LogMark(log, r, "ok")
    /\ accepted' = accepted + 1
    /\ UNCHANGED <<base, needFetch, Chain, Pure>>

\* line 130 throws: the catch block, then the loop's catch and the next item
SendRejected(r) ==
    /\ req[r].pc = "sent"
    /\ ~req[r].reply.ok
    /\ LET msg == req[r].reply.msg
           nonce1 == NonceAfterError(currentNonce, msg)
           reset == nonce1 = Null /\ IsNonceTooLow(msg)
           q0 == [req[r] EXCEPT !.reply = NoReply,
                                !.calls.nonceW = IF reset THEN @ + 1 ELSE @]
           q1 == NextItem(q0, Failed(q0, msg), nonce1)
       IN /\ currentNonce' = nonce1
          /\ base' = IF reset THEN Null ELSE base
          /\ Continue(r, q1)
          /\ log' = LogCall(IF reset THEN <<>> ELSE LogMark(log, r, "rej"), r, q1)
          /\ needFetch' = NeedAfter(needFetch \/ reset, q1)
          /\ accepted' = IF reset THEN 0 ELSE accepted
    /\ UNCHANGED <<Chain, Pure>>

\* tx.wait() resolves once the transaction is in a block (144-146, 176-177)
Confirmed(r) ==
    /\ req[r].pc = "wait"
    /\ req[r].txn < mined
    /\ LET q1 == NextItem(req[r], Created(req[r], req[r].txn), currentNonce)
       IN /\ Continue(r, q1)
          /\ log' = LogCall(log, r, q1)
          /\ needFetch' = NeedAfter(needFetch, q1)
    /\ UNCHANGED <<currentNonce, base, accepted, Chain, Pure>>

\* tx.wait() rejects (the transaction reverted, the connection dropped)
ConfirmFails(r) ==
    /\ req[r].pc = "wait"
    /\ LET msg == "transaction failed"
           nonce1 == NonceAfterError(currentNonce, msg)
           q1 == NextItem(req[r], Failed(req[r], msg), nonce1)
       IN /\ currentNonce' = nonce1
          /\ Continue(r, q1)
          /\ log' = LogCall(log, r, q1)
          /\ needFetch' = NeedAfter(needFetch, q1)
    /\ UNCHANGED <<base, accepted, Chain, Pure>>

\* --------------------------------------------- POST /finalize-prediction/:id
\* lines 191-194: the handler awaits contract.getPredictionDetails
FinalizeArrives(r) ==
    /\ CanArrive(r)
    /\ req' = [req EXCEPT ![r].kind = "finalize", ![r].pc = "read",
                          ![r].calls.chain = @ + 1]
    /\ Silent
    /\ UNCHANGED <<NonceState, Chain, Pure>>

\* lines 297-306: the dry run checks the description and starts at the retrieval
TestFinalizeArrives(r, description) ==
    /\ CanArrive(r)
    /\ Continue(r,
                 IF Falsy(description)
                 THEN Respond([req[r] EXCEPT !.kind = "testfin", !.field = description],
                              400, "Prediction description is required")
                 ELSE [req[r] EXCEPT !.kind = "testfin", !.field = description,
                                !.pc = "fretrieve", !.calls.retr = @ + 1])
    /\ UNCHANGED <<NonceState, Chain, Pure>>

\* the contract read returns (194-199)
ReadReturns(r, ok) ==
    /\ req[r].pc = "read"
    /\ Continue(r,
                 IF ok THEN [Stage(req[r], "read", ok) EXCEPT !.pc = "fretrieve", !.calls.retr = @ + 1]
                 ELSE Respond(Stage(req[r], "read", ok), 500, "call failed"))
    /\ UNCHANGED <<NonceState, Chain, Pure>>

\* getPerplexityData returns (199-200, 306-307): determineOutcome awaits the completion
FinalizeRetrieved(r, ok) ==
    /\ req[r].pc = "fretrieve"
    /\ Continue(r,
                 IF ok THEN [Stage(req[r], "retrieval", ok) EXCEPT !.pc = "judge", !.calls.llm = @ + 1]
                 ELSE Respond(Stage(req[r], "retrieval", ok), 500, "Failed to fetch data from Perplexity"))
    /\ UNCHANGED <<NonceState, Chain, Pure>>

\* the completion of determineOutcome fails (239, 260-263)
JudgeFails(r) ==
    /\ req[r].pc = "judge"
    /\ Continue(r,
                 Respond(Stage(req[r], "completion", FALSE), 500, "Failed to determine outcome"))
    /\ UNCHANGED <<NonceState, Chain, Pure>>

\* the completion returns: determineOutcome parses it (251-259); the dry run
\* answers (311), the finalization calls contract.finalizePrediction (204)
JudgeReturns(r, t) ==
    /\ req[r].pc = "judge"
    /\ LET d == DetermineOutcome(t)
           qs == Stage(req[r], "completion", TRUE)
           q0 == [qs EXCEPT !.outcome = d.val]
       IN Continue(r,
                    IF ~d.ok THEN Respond(qs, 500, "Failed to determine outcome")
                    ELSE IF req[r].kind = "testfin" THEN [q0 EXCEPT !.pc = "done", !.resp = 200]
                    ELSE [q0 EXCEPT !.pc = "fnonce", !.verdictArg = q0.outcome,
                                    !.calls.chain = @ + 1, !.calls.bcast = @ + 1])
    /\ UNCHANGED <<NonceState, Chain, Pure>>

\* no nonce is passed at line 204: the signer asks the node for the pending count
ChainAssignsNonce(r) ==
    /\ req[r].pc = "fnonce"
    /\ req' = [req EXCEPT ![r].pc = "fsend", ![r].txn = chainCount]
    /\ Silent
    /\ UNCHANGED <<NonceState, Chain, Pure>>

\* line 204 resumes: tx.wait() (205), or the handler's catch (214-217)
FinalizeSendReturns(r) ==
    /\ req[r].pc = "fsent"
    /\ Continue(r,
                 IF req[r].reply.ok
                 THEN [req[r] EXCEPT !.pc = "fwait", !.reply = NoReply, !.calls.chain = @ + 1]
                 ELSE Respond([req[r] EXCEPT !.reply = NoReply], 500, req[r].reply.msg))
    /\ UNCHANGED <<NonceState, Chain, Pure>>

\* line 205 resumes: the 200 answer of 209-213
FinalizeConfirmed(r) ==
    /\ req[r].pc = "fwait"
    /\ req[r].txn < mined
    /\ Continue(r, [req[r] EXCEPT !.pc = "done", !.resp = 200])
    /\ UNCHANGED <<NonceState, Chain, Pure>>

FinalizeConfirmFails(r) ==
    /\ req[r].pc = "fwait"
    /\ Continue(r, Respond(req[r], 500, "transaction failed"))
    /\ UNCHANGED <<NonceState, Chain, Pure>>

\* ------------------------------------------------------ specifications
\* a request arrives
Arrivals ==
    \/ \E r \in Reqs, k \in {"generate", "testgen"}, t \in BodyFields : GenerateArrives(r, k, t)
    \/ \E r \in Reqs : FinalizeArrives(r)
    \/ \E r \in Reqs, d \in BodyFields : TestFinalizeArrives(r, d)

\* an awaited call returns, or the chain moves
Steps ==
    \/ \E r \in Reqs, ok \in BOOLEAN : GenerateRetrieved(r, ok)
    \/ \E r \in Reqs : CompletionFails(r)
    \/ \E r \in Reqs, out \in ModelOutputs : CompletionReturns(r, out)
    \/ \E r \in Reqs, ok \in BOOLEAN : ChainServesCount(r, ok)
    \/ \E r \in Reqs : ChainReceives(r)
    \/ \E r \in Reqs : ChainRefuses(r)
    \/ Mine
    \/ \E r \in Reqs : FetchReturns(r)
    \/ \E r \in Reqs : SendAccepted(r)
    \/ \E r \in Reqs : SendRejected(r)
    \/ \E r \in Reqs : Confirmed(r)
    \/ \E r \in Reqs : ConfirmFails(r)
    \/ \E r \in Reqs, ok \in BOOLEAN : ReadReturns(r, ok)
    \/ \E r \in Reqs, ok \in BOOLEAN : FinalizeRetrieved(r, ok)
    \/ \E r \in Reqs : JudgeFails(r)
    \/ \E r \in Reqs, t \in JudgeTexts : JudgeReturns(r, t)
    \/ \E r \in Reqs : ChainAssignsNonce(r)
    \/ \E r \in Reqs : FinalizeSendReturns(r)
    \/ \E r \in Reqs : FinalizeConfirmed(r)
    \/ \E r \in Reqs : FinalizeConfirmFails(r)

Next == Arrivals \/ Steps

Spec == Init /\ [][Next]_vars

\* one request at a time: a request arrives only when every earlier one is answered
Quiet == \A q \in Reqs : ~InFlight(q)

SeqNext == (Quiet /\ Arrivals) \/ Steps

SeqSpec == Init /\ [][SeqNext]_vars

\* the awaited call of request r returns and its handler runs to the next await
Returns(r) ==
    \/ \E ok \in BOOLEAN : GenerateRetrieved(r, ok)
    \/ CompletionFails(r)
    \/ \E out \in ModelOutputs : CompletionReturns(r, out)
    \/ \E ok \in BOOLEAN : ChainServesCount(r, ok)
    \/ ChainReceives(r)
    \/ ChainRefuses(r)
    \/ FetchReturns(r)
    \/ SendAccepted(r)
    \/ SendRejected(r)
    \/ Confirmed(r)
    \/ ConfirmFails(r)
    \/ \E ok \in BOOLEAN : ReadReturns(r, ok)
    \/ \E ok \in BOOLEAN : FinalizeRetrieved(r, ok)
    \/ JudgeFails(r)
    \/ \E t \in JudgeTexts : JudgeReturns(r, t)
    \/ ChainAssignsNonce(r)
    \/ FinalizeSendReturns(r)
    \/ FinalizeConfirmed(r)
    \/ FinalizeConfirmFails(r)

\* every external call eventually returns a result or an error, and the event
\* loop then resumes the handler that awaits it
LiveSpec == Spec /\ \A r \in Reqs : WF_vars(Returns(r))

\* determineOutcome applied to every short completion text
Alphabet == {"0", "1", "2", "x", ".", " ", "\n", "R"}

Texts == UNION {[1..n -> Alphabet] : n \in 0..MaxLen}

OutcomeInit ==
    /\ currentNonce = Null
    /\ req = [r \in Reqs |-> Idle]
    /\ response = NoResponse
    /\ chainCount = InitCount
    /\ mined = InitCount
    /\ queued = {}
    /\ log = <<>>
    /\ base = Null
    /\ needFetch = FALSE
    /\ accepted = 0
    /\ text \in Texts
    /\ judged = NotJudged

ApplyDetermineOutcome ==
    /\ ~judged.applied
    /\ judged' = [applied |-> TRUE, ok |-> DetermineOutcome(text).ok,
                  val |-> DetermineOutcome(text).val]
    /\ UNCHANGED <<currentNonce, req, response, chainCount, mined, queued, log, base,
                   needFetch, accepted, text>>

OutcomeNext == ApplyDetermineOutcome

OutcomeSpec == OutcomeInit /\ [][OutcomeNext]_vars

\* ------------------------------------------------------------- claims
\* the handlers to look at: those in flight, and the one that has just answered
Handlers == {req[r] : r \in Reqs} \cup {response}
Creations == {q \in Handlers : q.kind = "generate"}
Finalizations == {q \in Handlers : q.kind = "finalize"}
Fetching == {r \in Reqs : req[r].pc \in {"fetch", "fetched"}}

\* the history restricted to the calls with a given fate
LogWhere(S) == SelectSeq(log, LAMBDA e : e.st \in S)
Consecutive(l, first) == \A i \in 1..Len(l) : l[i].n = first + (i - 1)

\* C1: at most one getTransactionCount fetch for the nonce is in flight at any time
C1_SingleFlightFetch == Cardinality(Fetching) <= 1

\* C2: with no reset in between, the nonces handed to contract.createPrediction by
\* the calls that were not rejected rise by exactly one from call to call, in the
\* order of the calls, so no two of them carry the same nonce
C2_NoncesGapFree ==
    LET l == LogWhere({"flight", "ok"})
    IN \A i \in 1..Len(l) - 1 : l[i + 1].n = l[i].n + 1

\* C3 as stated: one request at a time and no stale rejection, every submission
\* (accepted or not) uses the next nonce: base, base+1, ..., base+N-1
C3_EverySubmissionConsecutive == Consecutive(log, base)

\* C3 amended: one request at a time and no stale rejection, the submissions that
\* were not rejected use base, base+1, ... in order, base being the fetched count
C3_AcceptedConsecutive == Consecutive(LogWhere({"flight", "ok"}), base)

C3_Witness ==
    /\ Len(LogWhere({"ok"})) >= 2
    /\ Len(LogWhere({"rej"})) >= 1
    /\ response.kind = "generate" /\ Len(response.results) = 2

\* C4: after a "nonce too low" rejection the nonce stays uninitialized until a
\* submission starts (which then has to fetch) or a fetched count is assigned
C4_ResetForcesFetch == needFetch => currentNonce = Null

\* C5: one request at a time, once a finalize transaction has been accepted an
\* initialized in-memory nonce is one greater than the nonce the finalize was
\* broadcast with (the finalize used the in-memory nonce and incremented it)
C5_FinalizeThroughNonce ==
    \A q \in Finalizations : (q.pc = "fwait" /\ currentNonce # Null) => currentNonce = q.txn + 1

\* C6: the creation flow's results are one item per prediction already handled, in
\* the generator's order, each with exactly one of transactionHash (then its
\* transaction is in a block) or error; the 200 answer lists every prediction
HasField(item, f) == f \in DOMAIN item
WithoutResult(item) == [f \in DOMAIN item \ {"transactionHash", "error"} |-> item[f]]

C7_MissingTopic ==
    \A q \in Creations : q.field \in {Undefined, ""} =>
        /\ q.pc = "done"
        /\ q.resp = 400
        /\ q.err # ""
        /\ q.calls = NoCalls

C7_Witness ==
    /\ response.kind = "generate" /\ response.field = "" /\ response.resp = 400
    /\ \E r \in Reqs : req[r].pc \in {"send", "sent"}

\* C8: a creation request with a topic calls the generator once; when the
\* retrieval or the completion fails or the output is no JSON array, the request is
\* answered 500 with no chain call, no broadcast and no write of the nonce
GeneratorFailed(q) ==
    \/ \E i \in 1..Len(q.stages) : ~q.stages[i][2]
    \/ q.shape \in {"notjson", "notarray"}

C8_GeneratorHardFail ==
    \A q \in Creations : q.field \notin {Undefined, ""} =>
        /\ q.calls.gen = 1
        /\ GeneratorFailed(q) =>
              /\ q.pc = "done"
              /\ q.resp = 500
              /\ q.results = <<>>
              /\ q.calls.chain = 0
              /\ q.calls.bcast = 0
              /\ q.calls.nonceW = 0

C8_Witness ==
    /\ response.kind = "generate" /\ response.shape = "notarray" /\ response.resp = 500
    /\ \E r \in Reqs : req[r].pc \in {"send", "sent"}

\* C9: a finalize transaction is submitted only after the read, the retrieval and
\* the adjudication succeeded, with the adjudicator's value, 0 or 1, as its verdict;
\* when one of them fails nothing is submitted and the answer is 500
StagesOk == <<<<"read", TRUE>>, <<"retrieval", TRUE>>, <<"completion", TRUE>>>>

C9_FinalizeAfterVerdict ==
    \A q \in Finalizations :
        /\ q.calls.bcast <= 1
        /\ q.calls.bcast = 1 =>
              /\ q.stages = StagesOk
              /\ q.outcome \in {0, 1}
              /\ q.verdictArg = q.outcome
        /\ (\E i \in 1..Len(q.stages) : ~q.stages[i][2]) =>
              q.pc = "done" /\ q.resp = 500 /\ q.calls.bcast = 0
        /\ (q.pc = "done" /\ q.outcome = Null) => q.resp = 500 /\ q.calls.bcast = 0

C9_Witness ==
    /\ \E r \in Reqs : req[r].kind = "finalize" /\ req[r].pc = "fwait" /\ req[r].verdictArg = 1
    /\ response.kind = "finalize" /\ response.stages = StagesOk /\ response.outcome = Null

\* C10: determineOutcome fails for every completion text whose final line is not
\* exactly "0" or "1"
C10_StrictVerdict ==
    (judged.applied /\ LastLine(Trim(text)) \notin {<<"0">>, <<"1">>}) => ~judged.ok

\* the handlers that call generatePredictions
Generators == {q \in Handlers : q.kind \in {"generate", "testgen"}}

\* C11: once the completion has returned, generatePredictions has either returned
\* a non-empty sequence of predictions or failed (the request is answered 500)
C11_NonEmptyOrFail ==
    \A q \in Generators : q.shape # "" =>
        IF q.shape = "array" THEN q.preds # <<>>
        ELSE q.preds = <<>> /\ q.pc = "done" /\ q.resp = 500

\* the arguments of the contract.createPrediction call of lines 130-139 are read
\* from the loop's current prediction
Submitted(q) == q.preds[q.idx]

HasPolicy(p) == \A f \in DOMAIN Policy : f \in DOMAIN p /\ p[f] = Policy[f]

\* C12: every prediction generatePredictions returned, every prediction handed to
\* contract.createPrediction and every item of the answer carries minVotes=1,
\* maxVotes=1000, predictionType=0, optionsCount=2, whatever the model's objects hold
C12_PolicyFields ==
    \A q \in Generators :
        /\ \A i \in 1..Len(q.preds) : HasPolicy(q.preds[i])
        /\ \A i \in 1..Len(q.results) : HasPolicy(q.results[i])
        /\ q.pc \in {"send", "sent", "wait"} => HasPolicy(Submitted(q))

C12_Witness ==
    \E r \in Reqs :
        /\ req[r].kind = "generate" /\ req[r].pc = "wait"
        /\ HasField(Candidate(req[r].idx), "minVotes")
        /\ Candidate(req[r].idx).minVotes # Policy.minVotes

\* a step of request r's handler, and the handler's locals after it
Moved(r) == req'[r] # req[r]
After(r) == IF req'[r].pc = "done" THEN response' ELSE req'[r]

DryRuns == {"testgen", "testfin"}

\* C13: no step of a dry-run request, succeeding or failing, changes the in-memory
\* nonce or the chain, and the request has made no contract call, no broadcast and
\* no write of the nonce, whatever the other requests are doing
C13_DryRunFrame ==
    [][\A r \in Reqs : (Moved(r) /\ After(r).kind \in DryRuns) =>
          /\ UNCHANGED <<currentNonce, chainCount, mined, queued, log, base, needFetch,
                         accepted>>
          /\ After(r).calls.chain = 0
          /\ After(r).calls.bcast = 0
          /\ After(r).calls.nonceW = 0]_vars

C13_Witness ==
    /\ response.kind \in DryRuns /\ response.resp = 200
    /\ currentNonce # Null
    /\ \E r \in Reqs : req[r].kind = "generate" /\ req[r].pc \in {"sent", "wait"}

\* the item request r's step appended to its results, if it appended one
Pushed(r) == Len(After(r).results) = Len(req[r].results) + 1
PushedError(r) == Pushed(r) /\ HasField(After(r).results[Len(After(r).results)], "error")

\* C14: when createPredictionOnContract fails with an error that is not "nonce too
\* low" (the count fetch failed, the broadcast was refused, the confirmation failed)
\* the item gets the error and currentNonce keeps the value it had
C14_OtherFailureKeepsNonce ==
    [][\A r \in Reqs : (Moved(r) /\ req[r].kind = "generate") =>
          /\ (/\ req[r].pc \in {"fetched", "sent"}
              /\ ~req[r].reply.ok
              /\ ~IsNonceTooLow(req[r].reply.msg)) =>
                 PushedError(r) /\ currentNonce' = currentNonce
          /\ (req[r].pc = "wait" /\ PushedError(r)) => currentNonce' = currentNonce]_vars

\* a first item refused for another reason: the second is broadcast with the same nonce
C14_Witness ==
    \E r \in Reqs :
        /\ req[r].kind = "generate" /\ req[r].pc = "send" /\ req[r].idx = 2
        /\ HasField(req[r].results[1], "error")
        /\ Len(log) = 2 /\ log[1].st = "rej" /\ log[1].r = r
        /\ log[2].n = log[1].n /\ currentNonce = log[1].n

\* C15: the step that receives the transaction from the broadcast increments
\* currentNonce (null counting as 0) and only then awaits the confirmation; the
\* step that ends the wait, confirmed or failed, leaves currentNonce as it is
C15_IncrementBeforeConfirmation ==
    [][\A r \in Reqs : (Moved(r) /\ req[r].kind = "generate") =>
          /\ (req[r].pc = "sent" /\ req[r].reply.ok) =>
                /\ currentNonce' = (IF currentNonce = Null THEN 0 ELSE currentNonce) + 1
                /\ req'[r].pc = "wait"
          /\ req[r].pc = "wait" => currentNonce' = currentNonce]_vars

\* while one request waits for a confirmation not yet mined, another request has
\* broadcast with the incremented nonce
C15_Witness ==
    \E r, o \in Reqs :
        /\ req[r].kind = "generate" /\ req[r].pc = "wait" /\ req[r].txn >= mined
        /\ req[o].kind = "generate" /\ req[o].pc = "sent" /\ req[o].reply.ok
        /\ req[o].txn = req[r].txn + 1

\* the handler is between the broadcast of an item and the push of its result
InSubmission(q) == q.pc \in {"send", "sent", "wait"}

BroadcastOncePerItem ==
    /\ \A q \in Creations :
          /\ q.calls.bcast <= Len(q.results) + (IF InSubmission(q) THEN 1 ELSE 0)
          /\ q.calls.bcast <= Len(q.preds)
          /\ InSubmission(q) => q.idx = Len(q.results) + 1
    /\ \A q \in Finalizations : q.calls.bcast <= 1

\* C16: a request has broadcast at most once for each prediction it has handled or
\* is handling, and at most once for a finalization; the step that receives a
\* "nonce too low" rejection resets the nonce, pushes the item with its error and
\* moves on to the next prediction
C16_NoRetry ==
    /\ []BroadcastOncePerItem
    /\ [][\A r \in Reqs :
            (/\ Moved(r) /\ req[r].kind = "generate"
             /\ req[r].pc = "sent" /\ IsNonceTooLow(req[r].reply.msg)) =>
                /\ currentNonce' = Null
                /\ PushedError(r)
                /\ After(r).idx = req[r].idx + 1
                /\ After(r).calls.bcast = req[r].calls.bcast]_vars

\* the only request in flight has had its first item rejected for a stale nonce
\* and is fetching the count for its second item
C16_Witness ==
    \E r \in Reqs :
        /\ \A o \in Reqs \ {r} : ~InFlight(o)
        /\ req[r].kind = "generate" /\ req[r].pc = "fetch" /\ req[r].idx = 2
        /\ HasField(req[r].results[1], "error")
        /\ req[r].calls.bcast = 1
        /\ log = <<>> /\ base = Null

\* C17: when every awaited call eventually returns, every request that has
\* arrived is eventually answered; the answering step sends one response with
\* status 200, 400 or 500, and an answered request takes no further step
C17_EveryRequestAnswered ==
    /\ \A r \in Reqs : (req[r].pc # "idle") ~> (req[r].pc = "done")
    /\ [][\A r \in Reqs :
            /\ (req[r].pc # "done" /\ req'[r].pc = "done") =>
                  response'.pc = "done" /\ response'.resp \in {200, 400, 500}
            /\ req[r].pc = "done" => req'[r] = req[r]]_vars

\* both requests are answered, the second a creation that ran its whole loop
\* after interleaving with a finalization
C17_Witness ==
    /\ \A r \in Reqs : req[r].pc = "done"
    /\ response.kind = "generate" /\ response.resp = 200
    /\ Len(response.results) = MaxPreds
    /\ chainCount > InitCount + MaxPreds

\* C18: currentNonce is uninitialized or the last fetched count plus the broadcasts
\* accepted since that fetch, and from one initialized value to the next it never
\* decreases
C18_NonceFromFetch ==
    /\ [](currentNonce # Null => (base # Null /\ currentNonce = base + accepted))
    /\ [][(currentNonce # Null /\ currentNonce' # Null) => currentNonce' >= currentNonce]_vars

====
